---- MODULE Spec2Model ----
(***************************************************************************)
(* Model of the asyncio forward proxy of src/async.py (class ProxyServer). *)
(*                                                                         *)
(* One asyncio event loop runs every coroutine, so the code between two    *)
(* awaits that really suspend is one atomic step.  Each action below is    *)
(* one such step of handle_proxy_request / forward_request, one Control    *)
(* API handler (none of them suspends after its request is parsed), or one *)
(* move of the environment: a client sending bytes, a client closing its   *)
(* stream, the upstream answering, time passing.                           *)
(*                                                                         *)
(* Bytes and characters are one-character strings; a byte string or a text *)
(* is a sequence of them.  latin-1 maps bytes to characters one to one, so *)
(* request bytes and their decoded text are the same sequence.             *)
(***************************************************************************)
EXTENDS Integers, Sequences, FiniteSets, TLC

\* ------------------------------------------------------------------ bounds

\* Number of client connections the listener accepts in a run.
NumConns == 2

\* Wall-clock ticks (datetime.now()) a run may see.
MaxNow == 1

\* Time units of the event loop's clock between two instants at which the
\* model looks at it: timers are seen at 0, Quantum, 2 * Quantum, ... and at
\* their deadline.
Quantum == 5

\* ------------------------------------------------------- program constants

\* asyncio.wait_for(..., timeout=10) around every read of the handler.
ReadTimeout == 10

\* The status of the synthetic result of forward_request's except clause.
BadGateway == 502

\* limit_per_host=30 of the TCPConnector.
PerHostLimit == 30

\* The default of MAX_CONNECTIONS.
DefaultMaxConnections == 100

\* ------------------------------------------------------------ text helpers

CR == "\r"
LF == "\n"
SP == " "
COLON == ":"

Whitespace == {" ", "\t", "\r", "\n"}

Digits == {"0", "1", "2", "3", "4", "5", "6", "7", "8", "9"}

DigitVal(ch) ==
    CASE ch = "0" -> 0 [] ch = "1" -> 1 [] ch = "2" -> 2 [] ch = "3" -> 3
      [] ch = "4" -> 4 [] ch = "5" -> 5 [] ch = "6" -> 6 [] ch = "7" -> 7
      [] ch = "8" -> 8 [] ch = "9" -> 9

\* s[n:] and s[:n] of Python, for n >= 0: a slice past the end is cut short.
Drop(s, n) == SubSeq(s, n + 1, Len(s))

Take(s, n) == SubSeq(s, 1, IF n < Len(s) THEN n ELSE Len(s))

\* Index of the first occurrence of ch in s, 0 when there is none (str.find + 1).
RECURSIVE FindFrom(_, _, _)
FindFrom(s, ch, i) ==
    IF i > Len(s) THEN 0
    ELSE IF s[i] = ch THEN i
    ELSE FindFrom(s, ch, i + 1)

Find(s, ch) == FindFrom(s, ch, 1)

\* Length of s[1..n] once its trailing characters in chars are dropped.
RECURSIVE RStripLen(_, _, _)
RStripLen(s, chars, n) ==
    IF n > 0 /\ s[n] \in chars THEN RStripLen(s, chars, n - 1) ELSE n

\* str.rstrip(chars): drop the trailing characters that are in chars.
RStrip(s, chars) == Take(s, RStripLen(s, chars, Len(s)))

\* Number of leading characters of s[i..] in chars, plus i - 1.
RECURSIVE LStripLen(_, _, _)
LStripLen(s, chars, i) ==
    IF i <= Len(s) /\ s[i] \in chars THEN LStripLen(s, chars, i + 1) ELSE i - 1

LStrip(s, chars) == Drop(s, LStripLen(s, chars, 1))

\* str.strip(): surrounding whitespace removed.
Strip(s) == LStrip(RStrip(s, Whitespace), Whitespace)

\* The parts of s[start..] cut at the leftmost separators, maxsplit at most.
RECURSIVE SplitFrom(_, _, _, _)
SplitFrom(s, sep, maxsplit, start) ==
    LET i == FindFrom(s, sep, start) IN
    IF maxsplit = 0 \/ i = 0 THEN <<SubSeq(s, start, Len(s))>>
    ELSE <<SubSeq(s, start, i - 1)>> \o SplitFrom(s, sep, maxsplit - 1, i + 1)

\* str.split(sep, maxsplit): at most maxsplit cuts, at the leftmost separators;
\* empty parts are kept.
Split(s, sep, maxsplit) == SplitFrom(s, sep, maxsplit, 1)

\* Value of the digits ds[1..n].
RECURSIVE DecValueTo(_, _)
DecValueTo(ds, n) ==
    IF n = 0 THEN 0 ELSE 10 * DecValueTo(ds, n - 1) + DigitVal(ds[n])

DecValue(ds) == DecValueTo(ds, Len(ds))

AllDigits(s) == s # <<>> /\ \A i \in 1..Len(s) : s[i] \in Digits

\* int(text): surrounding whitespace, an optional sign, then decimal digits.
\* IntOk says whether int() returns; IntValue is what it returns.
IntBody(s) ==
    LET t == Strip(s) IN
    IF t # <<>> /\ t[1] \in {"+", "-"} THEN Drop(t, 1) ELSE t

IntOk(s) == AllDigits(IntBody(s))

IntValue(s) ==
    LET t == Strip(s) IN
    IF t # <<>> /\ t[1] = "-" THEN 0 - DecValue(IntBody(s)) ELSE DecValue(IntBody(s))

\* str(n) for an integer n.
DigitChar(d) ==
    CASE d = 0 -> "0" [] d = 1 -> "1" [] d = 2 -> "2" [] d = 3 -> "3"
      [] d = 4 -> "4" [] d = 5 -> "5" [] d = 6 -> "6" [] d = 7 -> "7"
      [] d = 8 -> "8" [] d = 9 -> "9"

RECURSIVE NatToStr(_)
NatToStr(n) ==
    IF n < 10 THEN <<DigitChar(n)>>
    ELSE NatToStr(n \div 10) \o <<DigitChar(n % 10)>>

IntToStr(n) == IF n < 0 THEN <<"-">> \o NatToStr(0 - n) ELSE NatToStr(n)

\* Characters outside ASCII are written as their code point in hex: "e9" is
\* U+00E9.  Every other character of the model is ASCII.
NonAscii == {"e9"}

\* str.encode('utf-8'): one byte per ASCII character, two for U+0080..U+07FF.
Utf8Char(ch) == IF ch = "e9" THEN <<"c3", "a9">> ELSE <<ch>>

RECURSIVE Utf8From(_, _)
Utf8From(text, i) ==
    IF i > Len(text) THEN <<>> ELSE Utf8Char(text[i]) \o Utf8From(text, i + 1)

Utf8(text) == Utf8From(text, 1)

\* json.dumps of a string (ensure_ascii): quotes, backslash escapes, \uXXXX.
JsonChar(ch) ==
    IF ch = "e9" THEN <<"\\", "u", "0", "0", "e", "9">>
    ELSE IF ch \in {"\"", "\\"} THEN <<"\\", ch>>
    ELSE <<ch>>

RECURSIVE JsonEscapeFrom(_, _)
JsonEscapeFrom(text, i) ==
    IF i > Len(text) THEN <<>> ELSE JsonChar(text[i]) \o JsonEscapeFrom(text, i + 1)

JsonEscape(text) == JsonEscapeFrom(text, 1)

JsonString(text) == <<"\"">> \o JsonEscape(text) \o <<"\"">>

\* Whether needle occurs in text as a contiguous run (the `in` of str).
Contains(text, needle) ==
    \E i \in 1..(Len(text) - Len(needle) + 1) :
        SubSeq(text, i, i + Len(needle) - 1) = needle

KeyError == <<"e", "r", "r", "o", "r">>
KeyDetails == <<"d", "e", "t", "a", "i", "l", "s">>
BadGatewayText == <<"B", "a", "d", " ", "G", "a", "t", "e", "w", "a", "y">>

\* json.dumps({'error': 'Bad Gateway', 'details': str(e)})
BadGatewayJson(details) ==
    <<"{">> \o JsonString(KeyError) \o <<":", " ">> \o JsonString(BadGatewayText)
        \o <<",", " ">> \o JsonString(KeyDetails) \o <<":", " ">>
        \o JsonString(details) \o <<"}">>

\* --------------------------------------------------------------- the state

Conns == 1..NumConns

VARIABLES
    stats,            \* self.stats
    target_url,       \* self.target_url
    max_connections,  \* self.max_connections
    connector,        \* the limits of the TCPConnector of self.client_session
    now,              \* the wall clock datetime.now() reads
    net,              \* per connection: what the client has yet to send, the
                      \* StreamReader's buffer and its end-of-stream flag
    conn              \* per connection: the handler's position and locals, the
                      \* calls it made and what it did to its StreamWriter

vars == <<stats, target_url, max_connections, connector, now, net, conn>>

\* Python's None, where a byte string or a text may stand.
None == <<"None">>

EmptyDict == [k \in {} |-> <<>>]

\* d[k] = v on a dict: a key already present is overwritten.
DictSet(d, k, v) == [x \in (DOMAIN d) \cup {k} |-> IF x = k THEN v ELSE d[x]]

\* The dict ProxyServer.__init__ and reset_stats build.
FreshStats(t) ==
    [total_requests |-> 0, successful_requests |-> 0, failed_requests |-> 0,
     start_time |-> t, uptime_seconds |-> 0, active_connections |-> 0]

\* ------------------------------------------------------- the clients' bytes

CRLF == <<CR, LF>>
ContentLength == <<"C", "o", "n", "t", "e", "n", "t", "-", "L", "e", "n", "g", "t", "h">>
LowerContentLength == <<"c", "o", "n", "t", "e", "n", "t", "-", "l", "e", "n", "g", "t", "h">>

GetLine == <<"G", "E", "T", " ", "/", "p", " ", "H", "/", "1">>
PostLine == <<"P", "O", "S", "T", " ", "/", "d", " ", "H", "/", "1">>
TwoTokenLine == <<"G", "E", "T", " ", "/", "p">>
SpacedPathLine == <<"G", "E", "T", " ", "/", "a", " ", "b", " ", "H", "/", "1">>
HostHeader == <<"H", "o", "s", "t", ":", " ", "x">>
NoColonHeader == <<"j", "u", "n", "k">>

ClHeader(value) == ContentLength \o <<":", " ">> \o value

\* The marker a client's script ends with when the client closes its end of
\* the stream after its last byte; a script without it leaves the stream open
\* and silent.
EOF == <<"EOF">>

\* What a client sends: a sequence of segments, each delivered to the reader
\* at once, with any delay between two of them.
GetRequest == GetLine \o CRLF \o HostHeader \o CRLF \o CRLF
PostHead(value) == PostLine \o CRLF \o ClHeader(value) \o CRLF \o CRLF

\* A POST sent at once, head and two body bytes.
Plain == { << PostHead(<<"2">>) \o <<"x", "y">> >> }

WellFormed ==
    Plain \cup
    { << GetRequest, EOF >>,
      << PostHead(<<"2">>), <<"x", "y">> >> }

Scripts ==
    WellFormed \cup
    { <<>>,                                                \* silent
      << EOF >>,                                           \* closed at once
      << TwoTokenLine \o CRLF \o CRLF, EOF >>,             \* no version
      << GetLine \o CRLF, HostHeader \o CRLF \o CRLF >>,   \* head in two parts
      << GetLine \o CRLF >>,                               \* stalls in the head
      << GetLine \o CRLF, EOF >>,                          \* closed in the head
      << GetLine, EOF >>,                                  \* closed in the line
      << GetLine \o <<LF>> \o NoColonHeader \o <<LF, LF>> >>,
      << PostHead(<<"2">>) \o <<"x">>, EOF >>,             \* short body, closed
      << PostHead(<<"2">>) \o <<"x">> >>,                  \* short body, stalled
      << PostHead(<<"2">>) \o <<"x", "y", "z">>, EOF >>,   \* more than the body
      << PostHead(<<"0">>) >>,
      << PostHead(<<"-", "1">>) >>,
      << PostHead(<<"x">>) >>,
      << PostLine \o CRLF \o LowerContentLength \o <<":", "2">> \o CRLF \o CRLF
            \o <<"x", "y">> >>,
      << PostLine \o CRLF \o ClHeader(<<"1">>) \o CRLF \o ClHeader(<<"2">>)
            \o CRLF \o CRLF, <<"x", "y">> >>,
      << SpacedPathLine \o CRLF \o CRLF >> }

OriginA == <<"h", "t", "t", "p", ":", "/", "/", "a">>
OriginB == <<"h", "t", "t", "p", ":", "/", "/", "b">>

\* ------------------------------------------------------------------- Init

InitConn ==
    [pc |-> "request_line", waited |-> 0,
     request_line |-> None, method |-> None, path |-> None, http_version |-> None,
     headers |-> EmptyDict, url |-> None, need |-> 0, body |-> None,
     calls |-> <<>>, upstream |-> [outcome |-> "-"], results |-> <<>>,
     wire |-> <<>>, exit |-> "-"]

\* The reader of a connection whose client has yet to send script.
\* recv keeps every byte that has reached the reader, read or not.
Unsent(script) == [segs |-> script, buf |-> <<>>, eof |-> FALSE, recv |-> <<>>]

\* The reader of a connection once the whole of script has reached it.
RECURSIVE Received(_)
Received(script) ==
    IF script = <<>> THEN Unsent(<<>>)
    ELSE LET n == Received(Tail(script)) IN
         IF Head(script) = EOF THEN [n EXCEPT !.eof = TRUE]
         ELSE [n EXCEPT !.buf = Head(script) \o @, !.recv = Head(script) \o @]

\* After ProxyServer.__init__ and start(): counters at zero, the connector
\* built with the max_connections of the constructor (one of limits), every
\* accepted connection's handler at its first read.  Connection 1 carries a script of
\* first, the others one of rest (the handler never looks at which connection
\* it serves); arrived says whether the clients have sent them already.
InitFor(first, rest, arrived, limits) ==
    /\ now = 0
    /\ stats = FreshStats(0)
    /\ target_url = OriginA
    /\ max_connections \in limits
    /\ connector = [limit |-> max_connections, limit_per_host |-> PerHostLimit]
    /\ \E f \in [Conns -> first \cup rest] :
          /\ f[1] \in first
          /\ \A c \in Conns \ {1} : f[c] \in rest
          /\ net = [c \in Conns |-> IF arrived THEN Received(f[c]) ELSE Unsent(f[c])]
    /\ conn = [c \in Conns |-> InitConn]

\* The same with MAX_CONNECTIONS left at its default.
InitWith(first, rest, arrived) == InitFor(first, rest, arrived, {DefaultMaxConnections})

\* ------------------------------------------------------------- environment

\* The client's next segment reaches the StreamReader (feed_data), or the
\* client closes its end (feed_eof).  A transport the handler has closed
\* takes nothing more.
ClientSend(c) ==
    /\ net[c].segs # <<>>
    /\ conn[c].exit = "-"
    /\ net' = [net EXCEPT ![c] =
                 IF Head(@.segs) = EOF
                 THEN [@ EXCEPT !.segs = Tail(@), !.eof = TRUE]
                 ELSE [@ EXCEPT !.segs = Tail(@), !.buf = @ \o Head(net[c].segs),
                                !.recv = @ \o Head(net[c].segs)]]
    /\ UNCHANGED <<stats, target_url, max_connections, connector, now, conn>>

\* StreamReader.readline() can return: a line feed is buffered, or the stream
\* has ended (it then returns what is left, b'' included).
LineReady(n) == Find(n.buf, LF) # 0 \/ n.eof

\* What readline() returns, and what it leaves in the buffer.
LineOf(n) == IF Find(n.buf, LF) # 0 THEN Take(n.buf, Find(n.buf, LF)) ELSE n.buf

AfterLine(n) == [n EXCEPT !.buf = Drop(@, Len(LineOf(n)))]

\* StreamReader.readexactly(k) can return or raise: k bytes are buffered, or
\* the stream has ended short of them.
ExactlyReady(n, k) == Len(n.buf) >= k \/ n.eof

\* The handler of c has left its try block: the writer is closed.
Left(c) == conn[c].pc \in {"wait_closed", "ended"}

\* The handler of c is suspended in a read that cannot complete yet.
Blocked(c) ==
    \/ conn[c].pc \in {"request_line", "headers"} /\ ~LineReady(net[c])
    \/ conn[c].pc = "body" /\ ~ExactlyReady(net[c], conn[c].need)

Min(a, b) == IF a < b THEN a ELSE b

\* wait_for's deadline has passed for the pending read of c.
Expired(c) == Blocked(c) /\ conn[c].waited >= ReadTimeout

\* The event loop's clock moves on by Quantum: every pending read has waited
\* that much longer, up to its deadline.  A read whose deadline has passed
\* times out first.
Tick ==
    /\ \E c \in Conns : Blocked(c)
    /\ \A c \in Conns : ~Expired(c)
    /\ conn' = [c \in Conns |->
                  IF Blocked(c)
                  THEN [conn[c] EXCEPT !.waited = Min(@ + Quantum, ReadTimeout)]
                  ELSE conn[c]]
    /\ UNCHANGED <<stats, target_url, max_connections, connector, now, net>>

\* The wall clock moves on.
ClockAdvance ==
    /\ now < MaxNow
    /\ now' = now + 1
    /\ UNCHANGED <<stats, target_url, max_connections, connector, net, conn>>

\* ------------------------------------------------------- forward_request

\* Mutant: the call counts the request but not the connection in use.
StatsBeginTotalOnly(st) == [st EXCEPT !.total_requests = @ + 1]

StatsBegin(st) ==
    [st EXCEPT !.total_requests = @ + 1, !.active_connections = @ + 1]

\* Mutant: the success path takes the connection off the gauge itself, and
\* the finally clause does so again.
StatsSuccessDecrements(st) ==
    [st EXCEPT !.successful_requests = @ + 1, !.active_connections = @ - 1]

StatsSuccess(st) == [st EXCEPT !.successful_requests = @ + 1]

\* Mutant: the except clause forgets to count the failure.
StatsFailureUncounted(st) == st

StatsFailure(st) == [st EXCEPT !.failed_requests = @ + 1]

\* Mutant: forward_request without its finally clause.
StatsFinallyMissing(st) == st

StatsFinally(st) == [st EXCEPT !.active_connections = @ - 1]

\* How the upstream exchange can fail, and str(e) of the exception raised:
\* aiohttp's ClientConnectorError (connection refused, transport error) and
\* the timeout=30 of the request (asyncio.TimeoutError, whose str is empty).
FailureKinds == {"ClientConnectorError", "TimeoutError"}

ExcText(kind) ==
    CASE kind = "ClientConnectorError" -> <<"n", "e9">>
      [] kind = "TimeoutError" -> <<>>

\* Mutant: the except clause names aiohttp.ClientError only, which the
\* request's timeout is not.
ForwardCatchesClientError(kind) == kind = "ClientConnectorError"

\* `except Exception` in forward_request: every failure of the exchange is an
\* Exception.
ForwardCatches(kind) == kind \in FailureKinds

\* The synthetic result of the except clause.
BadGatewayResult(kind) ==
    [status |-> BadGateway, text |-> BadGatewayJson(ExcText(kind))]

\* What the upstream may answer.
Responses ==
    { [status |-> 200, text |-> <<"o", "k">>],
      [status |-> 404, text |-> <<"e9">>] }

\* ------------------------------------------------- handle_proxy_request

\* Mutant: close() sits at the end of the try block and in the except
\* clauses, so an early `return` leaves the writer open.
ExitHandlerReturnSkipsClose(l, exit) ==
    IF exit = "return"
    THEN [l EXCEPT !.pc = "ended", !.exit = exit, !.waited = 0]
    ELSE [l EXCEPT !.wire = Append(@, <<"close">>), !.pc = "wait_closed",
                   !.exit = exit, !.waited = 0]

\* The finally clause: writer.close(), then the handler waits in
\* writer.wait_closed().  exit names the way the try block was left.
ExitHandler(l, exit) ==
    [l EXCEPT !.wire = Append(@, <<"close">>), !.pc = "wait_closed", !.exit = exit,
              !.waited = 0]

\* `except asyncio.TimeoutError` / `except Exception` of the handler.
HandlerExcept(kind) == IF kind = "TimeoutError" THEN "timeout" ELSE "error"

\* Mutant: a read timeout is answered 408 before the writer is closed.
OnReadTimeoutWrites408(l) ==
    ExitHandler([l EXCEPT !.wire = Append(@, <<"write", <<"4", "0", "8">> \o CRLF>>)],
                HandlerExcept("TimeoutError"))

\* Mutant: the read is started again with a fresh deadline.
OnReadTimeoutRetry(l) == [l EXCEPT !.waited = 0]

\* wait_for's deadline passed in a read: TimeoutError, caught, finally.
OnReadTimeout(l) == ExitHandler(l, HandlerExcept("TimeoutError"))

ContentTypeJson ==
    <<"C", "o", "n", "t", "e", "n", "t", "-", "T", "y", "p", "e", ":", " ",
      "a", "p", "p", "l", "i", "c", "a", "t", "i", "o", "n", "/", "j", "s", "o", "n">>

\* Mutant: the status line always says 200.
ResponseWritesAlways200(http_version, status, response) ==
    << <<"write", http_version \o <<" ", "2", "0", "0", " ", "O", "K">> \o CRLF>>,
       <<"write", ContentLength \o <<":", " ">> \o IntToStr(Len(response)) \o CRLF
                    \o ContentTypeJson \o CRLF \o CRLF>>,
       <<"write", Utf8(response)>> >>

\* The three writes of the response.
ResponseWrites(http_version, status, response) ==
    << <<"write", http_version \o <<" ">> \o IntToStr(status)
                    \o <<" ", "O", "K">> \o CRLF>>,
       <<"write", ContentLength \o <<":", " ">> \o IntToStr(Len(response)) \o CRLF
                    \o ContentTypeJson \o CRLF \o CRLF>>,
       <<"write", Utf8(response)>> >>

\* Mutant: a keep-alive handler, which goes back to read a next request once
\* the response is written.
SendResponseKeepAlive(l, result) ==
    [l EXCEPT !.results = Append(@, result),
              !.wire = @ \o ResponseWrites(l.http_version, result.status, result.text),
              !.pc = "request_line"]

\* forward_request has returned result: the handler writes the response and
\* suspends in writer.drain().
SendResponse(l, result) ==
    [l EXCEPT !.results = Append(@, result),
              !.wire = @ \o ResponseWrites(l.http_version, result.status, result.text),
              !.pc = "drain"]

\* The scheme and host of a URL: what precedes the first "/" of the path.
HostOf(url) ==
    IF FindFrom(url, "/", 8) = 0 THEN url ELSE Take(url, FindFrom(url, "/", 8) - 1)

\* The exchanges that hold a connection of the pool.
Holders == {d \in Conns : conn[d].pc = "upstream"}

\* The connector has a connection to give for url: fewer than limit are held
\* in all, and fewer than limit_per_host to the host of url.
PoolFree(url) ==
    /\ Cardinality(Holders) < connector.limit
    /\ Cardinality({d \in Holders : HostOf(conn[d].url) = HostOf(url)})
          < connector.limit_per_host

\* The handler calls forward_request(method, target_url, headers, data), which
\* counts the request and suspends in the upstream exchange, or, the pool
\* being at its limit, in the wait for a connection.
CallForward(c, l, data) ==
    /\ stats' = StatsBegin(stats)
    /\ conn' = [conn EXCEPT ![c] =
                  [l EXCEPT !.body = data,
                            !.calls = Append(@, [method |-> l.method, url |-> l.url,
                                                 headers |-> l.headers, data |-> data]),
                            !.pc = IF PoolFree(l.url) THEN "upstream" ELSE "pool_wait",
                            !.waited = 0]]

\* The request line is rejected: `if len(parts) < 3`.
TooFewParts(parts) == Len(parts) < 3

\* Mutant: a rejected request is answered 400 before the handler returns.
RejectRequestWith400(l) ==
    ExitHandler([l EXCEPT !.wire = <<<<"write", <<"4", "0", "0">> \o CRLF>>>>], "return")

\* Lines 166-167 and 172-174: `return` on an empty read or a rejected line.
RejectRequest(l) == ExitHandler(l, "return")

\* Lines 165-176: the request line has arrived, the stream has ended, or the
\* deadline has passed.  (\E over a one-element set names a local of the code
\* and its value.)
ReadRequestLine(c) ==
    /\ conn[c].pc = "request_line"
    /\ UNCHANGED <<stats, target_url, max_connections, connector, now>>
    /\ IF Blocked(c)
       THEN /\ Expired(c)
            /\ conn' = [conn EXCEPT ![c] = OnReadTimeout(@)]
            /\ UNCHANGED net
       ELSE \E line \in {LineOf(net[c])} :
            \E request_line \in {RStrip(line, {CR, LF})} :
            \E parts \in {Split(request_line, SP, 2)} :
            LET l == [conn[c] EXCEPT !.request_line = request_line]
            IN /\ net' = [net EXCEPT ![c] = AfterLine(@)]
               /\ conn' = [conn EXCEPT ![c] =
                     IF line = <<>> \/ TooFewParts(parts)
                     THEN RejectRequest(l)
                     ELSE [l EXCEPT !.method = parts[1], !.path = parts[2],
                                    !.http_version = parts[3],
                                    !.pc = "headers", !.waited = 0]]

\* Lines 187-188: the key and the value of a header line that holds a colon.
HeaderItem(header_line) ==
    CHOOSE item \in {<<Strip(kv[1]), Strip(kv[2])>> :
                        kv \in {Split(header_line, COLON, 1)}} : TRUE

\* Lines 186-188: one header line, decoded and stripped of its line end, into
\* the dict.
WithHeader(headers, header_line) ==
    IF Find(header_line, COLON) # 0
    THEN DictSet(headers, HeaderItem(header_line)[1], HeaderItem(header_line)[2])
    ELSE headers

\* Lines 181-201: the next header line.  The blank line ends the head: the
\* target URL is built, and the handler goes on to read the body when the
\* headers hold Content-Length, and calls forward_request when they do not.
ReadHeaderLine(c) ==
    /\ conn[c].pc = "headers"
    /\ UNCHANGED <<target_url, max_connections, connector, now>>
    /\ IF Blocked(c)
       THEN /\ Expired(c)
            /\ conn' = [conn EXCEPT ![c] = OnReadTimeout(@)]
            /\ UNCHANGED <<net, stats>>
       ELSE \E line \in {LineOf(net[c])} :
            \E header_line \in {RStrip(line, {CR, LF})} :
            LET l == [conn[c] EXCEPT !.url = target_url \o conn[c].path, !.waited = 0]
            IN /\ net' = [net EXCEPT ![c] = AfterLine(@)]
               /\ IF line \notin {CRLF, <<LF>>}
                  THEN /\ conn' = [conn EXCEPT ![c] =
                              [@ EXCEPT !.headers = WithHeader(@, header_line), !.waited = 0]]
                       /\ UNCHANGED stats
                  ELSE IF ContentLength \notin DOMAIN l.headers
                  THEN CallForward(c, l, None)
                  ELSE /\ UNCHANGED stats
                       /\ conn' = [conn EXCEPT ![c] =
                              IF IntOk(l.headers[ContentLength])
                                 /\ IntValue(l.headers[ContentLength]) >= 0
                              THEN [l EXCEPT !.need = IntValue(l.headers[ContentLength]),
                                             !.pc = "body"]
                              ELSE ExitHandler(l, HandlerExcept("ValueError"))]

\* What readexactly(k) returns when it returns: the first k buffered bytes.
ExactlyOf(n, k) == Take(n.buf, k)

\* Mutant: read(k) in place of readexactly(k), which returns what there is
\* when the stream has ended.
ExactlyReturnsAtEof(n, k) == Len(n.buf) >= k \/ n.eof

\* readexactly(k) returns rather than raising IncompleteReadError.
ExactlyReturns(n, k) == Len(n.buf) >= k

\* Mutant: a failed body read is not contained in its handler; it takes the
\* server's other connections down with it.
ReadBodyFailureClosesAll(c) ==
    /\ conn[c].pc = "body"
    /\ UNCHANGED <<target_url, max_connections, connector, now>>
    /\ IF Blocked(c) \/ ~ExactlyReturns(net[c], conn[c].need)
       THEN /\ Blocked(c) => Expired(c)
            /\ conn' = [d \in Conns |->
                          IF Left(d) THEN conn[d] ELSE ExitHandler(conn[d], "error")]
            /\ UNCHANGED <<net, stats>>
       ELSE /\ net' = [net EXCEPT ![c].buf = Drop(@, conn[c].need)]
            /\ CallForward(c, conn[c], ExactlyOf(net[c], conn[c].need))

\* Lines 198-201: the body has arrived, the stream has ended short of it, or
\* the deadline has passed.
ReadBody(c) ==
    /\ conn[c].pc = "body"
    /\ UNCHANGED <<target_url, max_connections, connector, now>>
    /\ IF Blocked(c)
       THEN /\ Expired(c)
            /\ conn' = [conn EXCEPT ![c] = OnReadTimeout(@)]
            /\ UNCHANGED <<net, stats>>
       ELSE IF ExactlyReturns(net[c], conn[c].need)
       THEN /\ net' = [net EXCEPT ![c].buf = Drop(@, conn[c].need)]
            /\ CallForward(c, conn[c], ExactlyOf(net[c], conn[c].need))
       ELSE /\ conn' = [conn EXCEPT ![c] =
                          ExitHandler(@, HandlerExcept("IncompleteReadError"))]
            /\ UNCHANGED <<net, stats>>

\* Line 142: a connection of the pool has become free for a waiting exchange.
AcquireSlot(c) ==
    /\ conn[c].pc = "pool_wait"
    /\ PoolFree(conn[c].url)
    /\ conn' = [conn EXCEPT ![c].pc = "upstream"]
    /\ UNCHANGED <<stats, target_url, max_connections, connector, now, net>>

\* Lines 142-150: the upstream answered; the body is counted as a success and
\* the call suspends leaving the `async with` block.
UpstreamResponds(c) ==
    /\ conn[c].pc = "upstream"
    /\ \E resp \in Responses :
          conn' = [conn EXCEPT ![c] =
                     [@ EXCEPT !.upstream = [outcome |-> "response", status |-> resp.status,
                                             text |-> resp.text],
                               !.pc = "aexit"]]
    /\ stats' = StatsSuccess(stats)
    /\ UNCHANGED <<target_url, max_connections, connector, now, net>>

\* Lines 150, 157-158, 203-210: the `async with` block is left, the finally
\* clause runs, forward_request returns and the handler writes the response.
ForwardReturns(c) ==
    /\ conn[c].pc = "aexit"
    /\ stats' = StatsFinally(stats)
    /\ LET result == [status |-> conn[c].upstream.status, text |-> conn[c].upstream.text]
       IN conn' = [conn EXCEPT ![c] = SendResponse(@, result)]
    /\ UNCHANGED <<target_url, max_connections, connector, now, net>>

\* Lines 152-158, 203-210: the exchange raised (in the wait for a connection
\* of the pool only the timeout=30 can).  Caught, it is counted as a
\* failure and becomes the 502 result the handler writes; the finally clause
\* runs either way.
UpstreamFails(c) ==
    /\ conn[c].pc \in {"upstream", "pool_wait"}
    /\ \E kind \in FailureKinds :
          /\ conn[c].pc = "pool_wait" => kind = "TimeoutError"
          /\ \E result \in {BadGatewayResult(kind)} :
                LET l == [conn[c] EXCEPT !.upstream = [outcome |-> kind]] IN
                IF ForwardCatches(kind)
                THEN /\ stats' = StatsFinally(StatsFailure(stats))
                     /\ conn' = [conn EXCEPT ![c] = SendResponse(l, result)]
                ELSE /\ stats' = StatsFinally(stats)
                     /\ conn' = [conn EXCEPT ![c] =
                                   ExitHandler(l, HandlerExcept(kind))]
    /\ UNCHANGED <<target_url, max_connections, connector, now, net>>

\* Lines 210-218: drain() returns, or raises because the client is gone (which
\* `except Exception` logs); the finally clause closes the writer either way.
Drain(c) ==
    /\ conn[c].pc = "drain"
    /\ conn' = [conn EXCEPT ![c] = ExitHandler(@, "drained")]
    /\ UNCHANGED <<stats, target_url, max_connections, connector, now, net>>

\* Line 218: wait_closed() is over and the handler invocation ends.
WaitClosed(c) ==
    /\ conn[c].pc = "wait_closed"
    /\ conn' = [conn EXCEPT ![c].pc = "ended"]
    /\ UNCHANGED <<stats, target_url, max_connections, connector, now, net>>

\* ------------------------------------------------------------ Control API

\* Mutant: the reset carries the gauge of forwards in flight over.
ResetStatsKeepsActive(t) ==
    [FreshStats(t) EXCEPT !.active_connections = stats.active_connections]

\* The dict reset_stats puts in place of self.stats.
ResetStats(t) == FreshStats(t)

reset_stats ==
    /\ stats' = ResetStats(now)
    /\ UNCHANGED <<target_url, max_connections, connector, now, net, conn>>

\* What get_stats answers: the dict, its uptime brought up to date.
StatsReply(st, t) == [st EXCEPT !.uptime_seconds = t - st.start_time]

\* get_stats stores the uptime in the dict it answers with.
get_stats ==
    /\ stats' = StatsReply(stats, now)
    /\ UNCHANGED <<target_url, max_connections, connector, now, net, conn>>

\* health_check and get_config read and answer; they change nothing.
HealthReply == [status |-> "healthy", active_connections |-> stats.active_connections]

health_check == HealthReply.status = "healthy" /\ UNCHANGED vars

ConfigReply == [target_url |-> target_url, max_connections |-> max_connections]

get_config == ConfigReply.target_url = target_url /\ UNCHANGED vars

\* Bodies of POST /config: which keys the JSON object holds and their values.
ConfigBodies ==
    { [keys |-> {"target_url"}, target_url |-> OriginB, max_connections |-> <<>>],
      [keys |-> {"max_connections"}, target_url |-> <<>>, max_connections |-> <<"1">>],
      [keys |-> {"max_connections", "target_url"}, target_url |-> OriginB,
       max_connections |-> <<"x">>] }

\* update_config: max_connections first, then target_url; int() raising leaves
\* what follows undone and answers 400.
update_config ==
    \E data \in ConfigBodies :
        LET bad == "max_connections" \in data.keys /\ ~IntOk(data.max_connections) IN
        /\ max_connections' =
              IF "max_connections" \in data.keys /\ ~bad
              THEN IntValue(data.max_connections) ELSE max_connections
        /\ target_url' =
              IF "target_url" \in data.keys /\ ~bad THEN data.target_url ELSE target_url
        /\ UNCHANGED <<stats, connector, now, net, conn>>

\* ------------------------------------------------------------------- Next

Handler(c) ==
    \/ ReadRequestLine(c)
    \/ ReadHeaderLine(c)
    \/ ReadBody(c)
    \/ UpstreamResponds(c)
    \/ UpstreamFails(c)
    \/ ForwardReturns(c)
    \/ Drain(c)
    \/ WaitClosed(c)

\* The handlers' steps.
ServeStep == \E c \in Conns : Handler(c)

\* The proxy port: clients, handlers and the event loop's timers.
ProxyStep ==
    \/ \E c \in Conns : ClientSend(c)
    \/ ServeStep
    \/ Tick

\* The Control API's handlers that read the Stats register.
StatsReadStep ==
    \/ get_stats
    \/ health_check

\* The Control API's handlers on the configuration.
ConfigApiStep ==
    \/ get_config
    \/ update_config

Next ==
    \/ ServeStep
    \/ StatsReadStep
    \/ reset_stats
    \/ ClockAdvance

\* Every client has sent a plain request; the handlers serve them while the
\* Control API reads and resets the Stats register.
Spec == InitWith(Plain, Plain, TRUE) /\ [][Next]_vars

QuietNext ==
    \/ ServeStep
    \/ StatsReadStep

\* The same without reset_stats.  The event loop runs every handler that can
\* go on, and every upstream exchange ends, in a response or in a failure.
QuietSpec ==
    /\ InitWith(Plain, Plain, TRUE)
    /\ [][QuietNext]_vars
    /\ \A c \in Conns : WF_vars(Handler(c))

\* Connection 1 carries any script, the others a plain request, sent with any
\* delays; no Control API call is made.
WireSpec == InitWith(Scripts, Plain, FALSE) /\ [][ProxyStep]_vars

\* A handler is in the header loop over a stream that has ended and is read
\* out: every readline() returns b'' at once, which is no blank line, and the
\* loop goes round without end.  Where wait_for awaits the read directly
\* (Python 3.12 on) the loop never suspends and the event loop runs nothing
\* else.
LoopHeld ==
    \E c \in Conns : conn[c].pc = "headers" /\ net[c].eof /\ net[c].buf = <<>>

\* WireSpec under the event loop's scheduling: while no handler holds the
\* loop, every handler that can go on does, and timers fire.  Clients send
\* when they please, or never.
FairWireSpec ==
    /\ InitWith(Scripts, Plain, FALSE)
    /\ [][ProxyStep]_vars
    /\ WF_vars(~LoopHeld /\ Tick)
    /\ \A c \in Conns : WF_vars(~LoopHeld /\ Handler(c))

\* The pool hands freed connections to the exchanges that wait for one.
PoolStep == \E c \in Conns : AcquireSlot(c)

ConfigNext ==
    \/ \E c \in Conns : ClientSend(c)
    \/ ServeStep
    \/ PoolStep
    \/ ConfigApiStep

\* Well-formed requests sent with any delays, to a proxy constructed with
\* max_connections 1 or the default, while the Control API reads and updates
\* the configuration.
ConfigSpec ==
    /\ InitFor(WellFormed, Plain, FALSE, {1, DefaultMaxConnections})
    /\ [][ConfigNext]_vars

\* ------------------------------------------------------------- the claims

\* forward_request of connection c has started and not yet returned.
InFlight(c) == conn[c].pc \in {"pool_wait", "upstream", "aexit"}

Ended(c) == conn[c].pc = "ended"

\* The positions of a wire at which bytes were written, and those at which
\* the writer was closed.
Writes(wire) == {i \in 1..Len(wire) : wire[i][1] = "write"}

Closes(wire) == {i \in 1..Len(wire) : wire[i][1] = "close"}

\* C1: without reset_stats, in every state in which no forward_request is in
\* flight, total_requests = successful_requests + failed_requests, whatever
\* the interleaving of the calls and whether each succeeded or failed.
C1_SettledTotals ==
    (\A c \in Conns : ~InFlight(c)) =>
        stats.total_requests = stats.successful_requests + stats.failed_requests

\* C1 witness: every call has returned, one at least a success and one at
\* least a failure.
C1_Witness ==
    /\ \A c \in Conns : ~InFlight(c) /\ conn[c].calls # <<>>
    /\ stats.successful_requests >= 1
    /\ stats.failed_requests >= 1

\* C2 (as claimed): active_connections >= 0 in every reachable state, resets
\* during forwards in flight included.
C2_ActiveNeverNegative == stats.active_connections >= 0

\* The keys of the 502 body, as json.dumps writes them.
JsonKey(name) == <<"\"">> \o name \o <<"\"", ":">>

\* C3: whenever the upstream exchange of a connection has failed,
\* forward_request has returned (not raised) status 502 with a JSON text
\* holding the keys error and details, and the handler has written that
\* response (a 502 status line, then the text as the body) before any close.
C3_FailureBecomes502 ==
    \A c \in Conns :
        conn[c].upstream.outcome \in FailureKinds =>
            /\ Len(conn[c].results) = 1
            /\ conn[c].results[1].status = 502
            /\ Contains(conn[c].results[1].text, JsonKey(KeyError))
            /\ Contains(conn[c].results[1].text, JsonKey(KeyDetails))
            /\ Len(conn[c].wire) >= 3
            /\ conn[c].wire[1] =
                  <<"write", conn[c].http_version \o <<" ", "5", "0", "2", " ", "O", "K", CR, LF>> >>
            /\ conn[c].wire[2][1] = "write"
            /\ conn[c].wire[3] = <<"write", conn[c].results[1].text>>

\* C3 witness: an exchange timed out, the 502 was written and the handler
\* has ended.
C3_Witness ==
    \E c \in Conns :
        /\ conn[c].upstream.outcome = "TimeoutError"
        /\ Ended(c)
        /\ Cardinality(Writes(conn[c].wire)) = 3

\* C4: with every client's request sent, no reset_stats, and every exchange
\* ending: every handler eventually ends, active_connections is never
\* negative on the way, and it is 0 whenever all handlers have ended.
C4_AllCompleteAndDrainToZero ==
    /\ <>(\A c \in Conns : Ended(c))
    /\ [](stats.active_connections >= 0)
    /\ []((\A c \in Conns : Ended(c)) => stats.active_connections = 0)

\* C4 witness: all N handlers have ended, each after a forward, and at least
\* one of them was answered by the upstream.
C4_Witness ==
    /\ \A c \in Conns : Ended(c) /\ Len(conn[c].calls) = 1
    /\ stats.total_requests = NumConns
    /\ stats.successful_requests >= 1

\* Index in bytes of the line feed that ends the request head (the first
\* blank line after a line), 0 when the head is not complete.
HeadEnds(bytes) ==
    {i \in 2..Len(bytes) :
        /\ bytes[i] = LF
        /\ \/ bytes[i - 1] = LF
           \/ i >= 3 /\ bytes[i - 1] = CR /\ bytes[i - 2] = LF}

HeadEnd(bytes) ==
    IF HeadEnds(bytes) = {} THEN 0
    ELSE CHOOSE i \in HeadEnds(bytes) : \A j \in HeadEnds(bytes) : i <= j

\* Number of body bytes the client has supplied after the head.
BodySupplied(bytes) == IF HeadEnd(bytes) = 0 THEN 0 ELSE Len(bytes) - HeadEnd(bytes)

\* C5: when the headers carry Content-Length: N, a forward_request call of
\* the connection was given exactly the N bytes that follow the head, all of
\* them read from the stream; and when the handler has left with fewer than N
\* body bytes supplied (stream closed or stalled past the deadline), there is
\* no forward_request call, nothing written, and the writer is closed.
C5_BodyExactOrNoForward ==
    \A c \in Conns :
        ContentLength \in DOMAIN conn[c].headers =>
            LET value == conn[c].headers[ContentLength]
                consumed == Len(net[c].recv) - Len(net[c].buf)
            IN /\ conn[c].calls # <<>> =>
                    /\ IntOk(value)
                    /\ conn[c].calls[1].data # None
                    /\ Len(conn[c].calls[1].data) = IntValue(value)
                    /\ consumed = HeadEnd(net[c].recv) + IntValue(value)
                    /\ conn[c].calls[1].data =
                          SubSeq(net[c].recv, HeadEnd(net[c].recv) + 1, consumed)
               /\ (Left(c) /\ IntOk(value)
                     /\ BodySupplied(net[c].recv) < IntValue(value)) =>
                    /\ conn[c].calls = <<>>
                    /\ conn[c].wire = << <<"close">> >>

\* C5 witness: one connection ended without a forward after its client
\* closed the stream one byte into a two-byte body, another forwarded its
\* two-byte body.
C5_Witness ==
    /\ Ended(1) /\ conn[1].calls = <<>> /\ net[1].eof
    /\ conn[1].need = 2 /\ BodySupplied(net[1].recv) = 1
    /\ \E c \in Conns : conn[c].calls # <<>> /\ conn[c].calls[1].data = <<"x", "y">>

\* Number of spaces in a request line: str.split(' ', 2) gives fewer than
\* three tokens exactly when there are fewer than two.
Spaces(text) == Cardinality({i \in 1..Len(text) : text[i] = SP})

\* C6: a request line of fewer than three tokens makes the handler close the
\* connection with no byte written and no forward_request call.
C6_ShortRequestLineClosedSilently ==
    \A c \in Conns :
        (conn[c].request_line # None /\ Spaces(conn[c].request_line) < 2) =>
            /\ Left(c)
            /\ conn[c].wire = << <<"close">> >>
            /\ conn[c].calls = <<>>

\* C6 witness: the handler of a connection whose request line was method and
\* path only has ended.
C6_Witness == conn[1].request_line = TwoTokenLine /\ Ended(1)

\* C7: no read stays pending past ReadTimeout, and every read starts with a
\* deadline of its own; the step a handler takes once its read has been
\* pending for the whole deadline ends the try block with a timeout; and a
\* handler that timed out has written nothing, called forward_request never,
\* closed its writer and reads no more.
C7_ReadDeadline ==
    /\ [](\A c \in Conns : conn[c].waited <= ReadTimeout)
    /\ [][\A c \in Conns :
             /\ (Len(net'[c].buf) < Len(net[c].buf)) => conn'[c].waited = 0
             /\ (Expired(c) /\ conn'[c] # conn[c]) =>
                    /\ conn'[c].exit = "timeout"
                    /\ conn'[c].pc = "wait_closed"]_vars
    /\ [](\A c \in Conns :
             conn[c].exit = "timeout" =>
                /\ Left(c)
                /\ conn[c].wire = << <<"close">> >>
                /\ conn[c].calls = <<>>)

\* C7 witness: a handler has ended by a timeout of its body read, after its
\* request line and header lines were read in time.
C7_Witness ==
    \E c \in Conns :
        /\ conn[c].exit = "timeout" /\ Ended(c)
        /\ conn[c].need = 2 /\ Len(net[c].buf) = 1

\* C8: when a request without a body was answered by the upstream, the
\* response written starts with a status line carrying the upstream's status
\* code and ends with the upstream's text, encoded and otherwise unmodified.
C8_UpstreamStatusAndTextRelayed ==
    \A c \in Conns :
        (/\ conn[c].results # <<>>
         /\ conn[c].upstream.outcome = "response"
         /\ conn[c].calls[1].data = None) =>
            /\ Cardinality(Writes(conn[c].wire)) = 3
            /\ conn[c].wire[1] =
                  <<"write", conn[c].http_version \o <<SP>>
                                \o IntToStr(conn[c].upstream.status)
                                \o <<SP, "O", "K", CR, LF>> >>
            /\ conn[c].wire[3] = <<"write", Utf8(conn[c].upstream.text)>>

\* C8 witness: a GET was answered 404 with a text outside ASCII, and the
\* handler has ended.
C8_Witness ==
    /\ Ended(1)
    /\ conn[1].method = <<"G", "E", "T">>
    /\ conn[1].calls # <<>> /\ conn[1].calls[1].data = None
    /\ conn[1].upstream.outcome = "response"
    /\ conn[1].upstream.status = 404
    /\ conn[1].upstream.text = <<"e9">>

\* C9: the writer of a connection is closed at most once, nothing is written
\* after the close, and a handler that has left its try block (by whatever
\* way) or ended has closed it.
C9_ClosedOnceOnEveryExit ==
    \A c \in Conns :
        /\ Cardinality(Closes(conn[c].wire)) <= 1
        /\ Closes(conn[c].wire) \subseteq {Len(conn[c].wire)}
        /\ (Left(c) \/ conn[c].exit # "-") => Cardinality(Closes(conn[c].wire)) = 1

\* C9 witness: two handlers have ended, one by the return on a rejected
\* request line and one after a completed response.
C9_Witness ==
    \E c, d \in Conns :
        /\ Ended(c) /\ conn[c].exit = "return"
        /\ Ended(d) /\ conn[d].exit = "drained"

\* The four counters of a stats dict.
Counters(st) ==
    <<st.total_requests, st.successful_requests, st.failed_requests,
      st.active_connections>>

\* C10: what get_stats answers right after a reset_stats step has all four
\* counters at 0 and the start_time of that reset.
C10_ResetThenStatsAllZero ==
    [][reset_stats =>
          /\ Counters(StatsReply(stats', now')) = <<0, 0, 0, 0>>
          /\ StatsReply(stats', now').start_time = now]_vars

\* C10 witness: the dict was reset after the start, at the present instant,
\* while a forward counted before the reset is still in flight.
C10_Witness ==
    /\ now > 0
    /\ stats.start_time = now
    /\ Counters(stats) = <<0, 0, 0, 0>>
    /\ \E c \in Conns : conn[c].pc = "upstream"

\* C11 (as claimed): every handler eventually closes its writer, whatever
\* the client does; none stays in the header loop for ever.
C11_EveryHandlerCloses == <>(\A c \in Conns : Left(c))

\* C12 (as claimed): when the stream has ended with no line feed ever
\* received (no bytes at all, or an unterminated partial line) and the
\* handler has taken what readline() gave it, the request is rejected: the
\* handler has left without reading headers, with no forward_request call and
\* nothing written, and the writer is closed.
C12_UnterminatedLineRejected ==
    \A c \in Conns :
        (net[c].eof /\ Find(net[c].recv, LF) = 0 /\ conn[c].request_line # None) =>
            /\ Left(c)
            /\ conn[c].exit = "return"
            /\ conn[c].wire = << <<"close">> >>
            /\ conn[c].calls = <<>>

\* The place of a handler position in the order ReadHead, ReadBody, Forward,
\* WriteResponse, Close.
Rank(pc) ==
    CASE pc = "request_line" -> 1 [] pc = "headers" -> 2 [] pc = "body" -> 3
      [] pc = "pool_wait" -> 4 [] pc = "upstream" -> 5 [] pc = "aexit" -> 6
      [] pc = "drain" -> 7 [] pc = "wait_closed" -> 8 [] pc = "ended" -> 9

\* C13: a handler never goes back in the order of its steps and does nothing
\* more once it has left its try block; forward_request is called at most
\* once, only with the head read to its blank line and, when Content-Length
\* is among the headers, the body read; at most one response is written, and
\* only with the result forward_request returned.
C13_StepsInOrder ==
    /\ [][\A c \in Conns :
             /\ Rank(conn'[c].pc) >= Rank(conn[c].pc)
             /\ Left(c) => conn'[c] = [conn[c] EXCEPT !.pc = conn'[c].pc]]_vars
    /\ [](\A c \in Conns :
             /\ Len(conn[c].calls) <= 1
             /\ Len(conn[c].results) <= Len(conn[c].calls)
             /\ conn[c].calls # <<>> =>
                   /\ HeadEnd(net[c].recv) # 0
                   /\ Rank(conn[c].pc) >= 4
                   /\ ContentLength \in DOMAIN conn[c].headers =>
                         conn[c].calls[1].data = conn[c].body /\ conn[c].body # None
             /\ Cardinality(Writes(conn[c].wire)) \in {0, 3}
             /\ Writes(conn[c].wire) # {} =>
                   /\ Len(conn[c].results) = 1
                   /\ Rank(conn[c].pc) >= 7
                   /\ conn[c].wire[3] = <<"write", Utf8(conn[c].results[1].text)>>)

\* C13 witness: a handler has gone through every step, body read included,
\* and ended.
C13_Witness ==
    \E c \in Conns :
        /\ Ended(c) /\ conn[c].exit = "drained"
        /\ conn[c].body = <<"x", "y">>
        /\ Len(conn[c].calls) = 1 /\ Len(conn[c].results) = 1
        /\ Cardinality(Writes(conn[c].wire)) = 3

\* C14: the step in which a handler calls forward_request adds 1 to
\* total_requests and to active_connections and the exchange has not begun
\* before it; the step in which the exchange returns a response adds 1 to
\* successful_requests only; the step that leaves forward_request after a
\* response takes 1 from active_connections only; the step in which the
\* exchange raises adds 1 to failed_requests and takes 1 from
\* active_connections; no other step of a handler touches the counters.
C14_CountersPerCall ==
    [][\A c \in Conns :
          conn'[c] # conn[c] =>
             stats' =
                CASE Len(conn'[c].calls) > Len(conn[c].calls) ->
                        [stats EXCEPT !.total_requests = @ + 1,
                                      !.active_connections = @ + 1]
                  [] conn[c].pc = "upstream" /\ conn'[c].pc = "aexit" ->
                        [stats EXCEPT !.successful_requests = @ + 1]
                  [] conn[c].pc = "aexit" /\ conn'[c].pc # "aexit" ->
                        [stats EXCEPT !.active_connections = @ - 1]
                  [] conn[c].pc \in {"pool_wait", "upstream"}
                        /\ conn'[c].pc \notin {"pool_wait", "upstream", "aexit"} ->
                        [stats EXCEPT !.failed_requests = @ + 1,
                                      !.active_connections = @ - 1]
                  [] OTHER -> stats]_vars

\* C14 witness: with no reset since the start, one call has returned after a
\* response and another after a failure, and each was counted once.
C14_Witness ==
    /\ \E c, d \in Conns :
          /\ conn[c].pc = "drain" /\ conn[c].upstream.outcome = "response"
          /\ conn[d].pc = "drain" /\ conn[d].upstream.outcome \in FailureKinds
    /\ Counters(stats) = <<2, 1, 1, 0>>

\* C15 (as claimed): the URL a forward_request call is given is the target
\* origin configured at the moment of the call followed by the request path.
C15_UrlFromOriginAtForward ==
    [][\A c \in Conns :
          Len(conn'[c].calls) > Len(conn[c].calls) =>
             conn'[c].calls[1].url = target_url \o conn'[c].path]_vars

\* The handler of c has ended its request by a failure: a read timeout or
\* another exception caught at lines 212-215.
Failed(c) == conn[c].exit \in {"timeout", "error"}

C17_PoolBoundFollowsConfig ==
    /\ Cardinality(Holders) <= Min(max_connections, PerHostLimit)
    /\ \A c \in Conns :
          conn[c].pc = "pool_wait" => conn[c].upstream.outcome = "-"

\* The requests counted and not yet counted as a success or a failure.
Unsettled == stats.total_requests - stats.successful_requests - stats.failed_requests

\* C18: without reset_stats, active_connections is in every state the number
\* of forward_request calls begun and not yet returned, and the requests not
\* yet counted as success or failure are never fewer than 0 nor more than
\* active_connections.
C18_GaugeIsCallsInFlight ==
    /\ stats.active_connections = Cardinality({c \in Conns : InFlight(c)})
    /\ Unsettled >= 0
    /\ Unsettled <= stats.active_connections

\* C18 witness: one call is in its exchange and another has its response
\* counted but has not returned yet.
C18_Witness ==
    /\ \E c, d \in Conns : conn[c].pc = "upstream" /\ conn[d].pc = "aexit"
    /\ stats.active_connections = 2
    /\ Unsettled = 1

\* The connections whose handler has called forward_request.
Forwarded == {c \in Conns : conn[c].calls # <<>>}

\* C19: a step of a handler that has not reached forward_request by its end
\* leaves the Stats register as it was; a handler that has left without a
\* forward_request call has written nothing; and total_requests counts the
\* connections that reached forward_request, no others.
C19_OnlyForwardsAreCounted ==
    /\ [][\A c \in Conns :
             (conn'[c] # conn[c] /\ c \notin Forwarded') => stats' = stats]_vars
    /\ [](\A c \in Conns :
             (Left(c) /\ c \notin Forwarded) => conn[c].wire = << <<"close">> >>)
    /\ [](stats.total_requests = Cardinality(Forwarded))

\* C19 witness: one handler has ended on a Content-Length that is no integer,
\* another on a read timeout, neither reached forward_request, and the
\* counters are at zero.
C19_Witness ==
    /\ Ended(1) /\ conn[1].exit = "error" /\ 1 \notin Forwarded
    /\ ContentLength \in DOMAIN conn[1].headers
    /\ conn[1].headers[ContentLength] = <<"x">>
    /\ \E c \in Conns : Ended(c) /\ conn[c].exit = "timeout"
    /\ Counters(stats) = <<0, 0, 0, 0>>

\* The value of the Content-Length header in the header bytes of a response:
\* what stands between "Content-Length: " and the first line end.
ContentLengthOf(bytes) ==
    IntValue(SubSeq(bytes, Len(ContentLength) + 3, Find(bytes, CR) - 1))

\* C20 (as claimed): in every response written, the value of the
\* Content-Length header is the number of body bytes written after the blank
\* line.
C20_ContentLengthIsBodyBytes ==
    \A c \in Conns :
        Cardinality(Writes(conn[c].wire)) = 3 =>
            /\ Take(conn[c].wire[2][2], Len(ContentLength)) = ContentLength
            /\ ContentLengthOf(conn[c].wire[2][2]) = Len(conn[c].wire[3][2])

====
